---------------------------- MODULE Spec2Model ----------------------------
(***************************************************************************)
(* Model of the validation orchestration of fsh-validator                  *)
(* (src/fsh_validator/fsh_validator.py, src/fsh_validator/cli.py).         *)
(*                                                                         *)
(* Text (validator transcripts, filenames, messages) is a sequence of      *)
(* tokens.  A token is a piece of text that holds no blank, no '-' and no  *)
(* line break, or it is exactly one blank, one '-' or one line break, so   *)
(* that every regular expression of the source is evaluated on tokens      *)
(* exactly as Python evaluates it on the characters.                       *)
(***************************************************************************)
EXTENDS Integers, Sequences, FiniteSets, TLC

(***************************************************************************)
(* Bounds of the model.                                                    *)
(***************************************************************************)
MaxBlocks == 2        \* instance blocks of a synthetic transcript
MaxFiles == 2         \* source files of a run
MaxLines == 4         \* lines of a synthetic block

(***************************************************************************)
(* Tokens.                                                                 *)
(***************************************************************************)
NL == "\n"
SP == " "
DASH == "-"
None == "<None>"
NoneText == <<None>>

Whitespace == {SP, NL}
Digits == {"0", "1", "2", "3", "4", "5", "6", "7", "8", "9"}

DigitValue(d) ==
    CASE d = "0" -> 0 [] d = "1" -> 1 [] d = "2" -> 2 [] d = "3" -> 3
      [] d = "4" -> 4 [] d = "5" -> 5 [] d = "6" -> 6 [] d = "7" -> 7
      [] d = "8" -> 8 [] d = "9" -> 9

Min(S) == CHOOSE x \in S : \A y \in S : x <= y

\* s[a..b] as Python's s[a-1:b]; empty when b < a.
Slice(s, a, b) == IF b < a THEN <<>> ELSE SubSeq(s, a, b)

\* Does the literal lit occur in s at position i?
MatchAt(s, i, lit) ==
    /\ i >= 1
    /\ i + Len(lit) - 1 <= Len(s)
    /\ \A j \in 1..Len(lit) : s[i + j - 1] = lit[j]

Max(S) == CHOOSE x \in S : \A y \in S : x >= y

\* Number of consecutive tokens of s from position i on that are in the set T.
RunFrom(s, i, T) ==
    LET stop == {k \in i..Len(s) : s[k] \notin T}
    IN  IF i > Len(s) THEN 0
        ELSE IF stop = {} THEN Len(s) + 1 - i ELSE Min(stop) - i

\* Number of consecutive '-' of s from position i on.
DashRun(s, i) == RunFrom(s, i, {DASH})

\* Number of consecutive '-' of s that end at position i.
DashRunBack(s, i) ==
    LET stop == {k \in 1..i : s[k] # DASH}
    IN  IF i < 1 THEN 0
        ELSE IF stop = {} THEN i ELSE i - Max(stop)

\* Number of consecutive digits of s from position i on.
DigitRun(s, i) == RunFrom(s, i, Digits)

\* int() of the digits s[i..i+n-1].
RECURSIVE IntOf(_, _, _)
IntOf(s, i, n) ==
    IF n = 0 THEN 0 ELSE 10 * IntOf(s, i, n - 1) + DigitValue(s[i + n - 1])

\* Position of the first line break of s at or after i; 0 when there is none.
LineEnd(s, i) ==
    LET c == {k \in i..Len(s) : s[k] = NL}
    IN  IF c = {} THEN 0 ELSE Min(c)

\* str.strip()
Strip(s) ==
    LET keep == {k \in 1..Len(s) : s[k] \notin Whitespace}
    IN  IF keep = {} THEN <<>> ELSE SubSeq(s, Min(keep), Max(keep))

\* The string that a sequence of tokens spells.
RECURSIVE Str(_)
Str(s) == IF s = <<>> THEN "" ELSE Head(s) \o Str(Tail(s))

(***************************************************************************)
(* ValidatorStatus: the constructor.                                       *)
(***************************************************************************)
SUCCESS == "success"
FAILURE == "failure"
WARNING == "warning"
NOT_RUN == "not-run"

ValidatorStatus(output, status, errors, warnings, profile, instance) ==
    [status |-> status,
     errors |-> errors,
     warnings |-> warnings,
     notes |-> <<>>,
     n_errors |-> Len(errors),
     n_warnings |-> Len(warnings),
     n_notes |-> 0,
     output |-> output,
     profile |-> profile,
     instance |-> instance,
     instance_filename |-> NoneText]

(***************************************************************************)
(* The regular expressions of ValidatorStatus.parse.                       *)
(***************************************************************************)
\* re.split("\n-{4,}", s): the pieces of s from position i on.  A match is a
\* line break followed by four or more '-', all of which it takes.
RECURSIVE SplitFrom(_, _)
SplitFrom(s, i) ==
    LET c == {k \in i..Len(s) : s[k] = NL /\ DashRun(s, k + 1) >= 4}
    IN  IF c = {} THEN <<Slice(s, i, Len(s))>>
        ELSE <<Slice(s, i, Min(c) - 1)>>
                 \o SplitFrom(s, Min(c) + 1 + DashRun(s, Min(c) + 1))

SplitBlocks(s) == SplitFrom(s, 1)

\* pattern_filename = "-- (.*) --{4,}\n" matched at position i: the position of
\* the blank that ends group 1, or 0 when the pattern does not match at i.
\* Group 1 cannot cross a line break, and the dashes must run up to it.
FilenameMatchAt(s, i) ==
    IF ~MatchAt(s, i, <<DASH, DASH, SP>>) THEN 0
    ELSE LET nl == LineEnd(s, i + 3)
             k == nl - 1 - DashRunBack(s, nl - 1)
         IN  IF /\ nl # 0
                /\ k >= i + 3
                /\ s[k] = SP
                /\ DashRunBack(s, nl - 1) >= 5
             THEN k ELSE 0

\* pattern_filename.search(s): <<i, k>> of the leftmost match, or <<0, 0>>.
FilenameSearch(s) ==
    LET c == {i \in 1..Len(s) : FilenameMatchAt(s, i) # 0}
    IN  IF c = {} THEN <<0, 0>> ELSE <<Min(c), FilenameMatchAt(s, Min(c))>>

\* pattern_filename_single.findall(s) for "  Validate (.*)\n", from position i.
\* A match takes the rest of its line and the line break.
RECURSIVE ValidateFindall(_, _)
ValidateFindall(s, i) ==
    LET c == {k \in i..Len(s) : /\ MatchAt(s, k, <<SP, SP, "Validate", SP>>)
                                /\ LineEnd(s, k + 4) # 0}
    IN  IF c = {} THEN <<>>
        ELSE <<Slice(s, Min(c) + 4, LineEnd(s, Min(c) + 4) - 1)>>
                 \o ValidateFindall(s, LineEnd(s, Min(c) + 4) + 1)

\* pattern_status matched at position i: 0 when it does not match, else the
\* number of digits of each of the three counts, as <<e, w, n>>.
StatusMatchAt(s, i) ==
    IF ~(i <= Len(s) /\ s[i] \in {"*FAILURE*", "Success"}
         /\ MatchAt(s, i + 1, <<":", SP>>)) THEN <<0, 0, 0>>
    ELSE LET e == DigitRun(s, i + 3)
             pw == i + 3 + e + 3
             w == DigitRun(s, pw)
             pn == pw + w + 3
             n == DigitRun(s, pn)
         IN  IF /\ e > 0
                /\ MatchAt(s, i + 3 + e, <<SP, "errors,", SP>>)
                /\ w > 0
                /\ MatchAt(s, pw + w, <<SP, "warnings,", SP>>)
                /\ n > 0
                /\ MatchAt(s, pn + n, <<SP, "notes">>)
             THEN <<e, w, n>> ELSE <<0, 0, 0>>

\* pattern_status.search(s): the position of the leftmost match, or 0.
StatusSearch(s) ==
    LET c == {i \in 1..Len(s) : StatusMatchAt(s, i)[1] # 0}
    IN  IF c = {} THEN 0 ELSE Min(c)

\* [m.group().strip() for m in re.compile("  (<word> @ .*)").finditer(s)], from
\* position i: each match runs to the end of its line.
\* MessageFinditer that stops at the first match.
MessageFinditer_FirstOnly(s, i, word) ==
    LET c == {k \in i..Len(s) : MatchAt(s, k, <<SP, SP, word, SP, "@", SP>>)}
        nl == LineEnd(s, Min(c) + 6)
        e == IF nl = 0 THEN Len(s) ELSE nl - 1
    IN  IF c = {} THEN <<>> ELSE <<Str(Strip(Slice(s, Min(c), e)))>>

RECURSIVE MessageFinditer(_, _, _)
MessageFinditer(s, i, word) ==
    LET c == {k \in i..Len(s) : MatchAt(s, k, <<SP, SP, word, SP, "@", SP>>)}
        nl == LineEnd(s, Min(c) + 6)
        e == IF nl = 0 THEN Len(s) ELSE nl - 1
    IN  IF c = {} THEN <<>>
        ELSE <<Str(Strip(Slice(s, Min(c), e)))>>
                 \o MessageFinditer(s, e + 1, word)


(***************************************************************************)
(* ValidatorStatus.parse and ValidatorStatusParser.parse.  A call that     *)
(* raises is [exc |-> <the exception>]; one that returns is                *)
(* [exc |-> None, val |-> <the value>].                                    *)
(***************************************************************************)
Raise(e) == [exc |-> e]
Return(v) == [exc |-> None, val |-> v]

\* The filename of a block: pattern_filename first, "  Validate <file>" second.
\* findall returns a list, never None: no match at all falls through to
\* matches[0], an IndexError.
\* ParseFilename with the two patterns tried in the other order.
ParseFilename_ValidateFirst(output) ==
    LET m == FilenameSearch(output)
        matches == ValidateFindall(output, 1)
    IN  IF Len(matches) > 1 THEN Raise("ValueError")
        ELSE IF Len(matches) = 1 THEN Return(matches[1])
        ELSE IF m[1] # 0 THEN Return(Slice(output, m[1] + 3, m[2] - 1))
        ELSE Raise("IndexError")

ParseFilename(output) ==
    LET m == FilenameSearch(output)
        matches == ValidateFindall(output, 1)
    IN  IF m[1] # 0 THEN Return(Slice(output, m[1] + 3, m[2] - 1))
        ELSE IF Len(matches) > 1 THEN Raise("ValueError")
        ELSE IF Len(matches) = 0 THEN Raise("IndexError")
        ELSE Return(matches[1])

status_map(keyword) == IF keyword = "Success" THEN SUCCESS ELSE FAILURE

\* Downgrade that leaves every status as it is.
Downgrade_Never(status, warnings) == status

\* Success with at least one warning line becomes Warning.
Downgrade(status, warnings) ==
    IF status = SUCCESS /\ Len(warnings) > 0 THEN WARNING ELSE status

ValidatorStatusParse(output) ==
    LET fn == ParseFilename(output)
        m == StatusSearch(output)
        d == StatusMatchAt(output, m)
        pe == m + 3
        pw == pe + d[1] + 3
        pn == pw + d[2] + 3
        warnings == MessageFinditer(output, 1, "Warning")
    IN  IF fn.exc # None THEN fn
        ELSE IF m = 0 THEN Raise("AttributeError")
        ELSE Return(
            [status |-> Downgrade(status_map(output[m]), warnings),
             errors |-> MessageFinditer(output, 1, "Error"),
             warnings |-> warnings,
             notes |-> MessageFinditer(output, 1, "Information"),
             n_errors |-> IntOf(output, pe, d[1]),
             n_warnings |-> IntOf(output, pw, d[2]),
             n_notes |-> IntOf(output, pn, d[3]),
             output |-> output,
             profile |-> "",
             instance |-> "",
             instance_filename |-> fn.val])

\* A block is skipped when output.strip() == "".
IsBlank(output) == Strip(output) = <<>>

\* ParseOutputs going on to the next block when a block does not parse.
RECURSIVE ParseOutputs_SkipUnparsed(_, _, _)
ParseOutputs_SkipUnparsed(outputs, i, results) ==
    IF i > Len(outputs) THEN Return(results)
    ELSE IF IsBlank(outputs[i])
    THEN ParseOutputs_SkipUnparsed(outputs, i + 1, results)
    ELSE IF ValidatorStatusParse(outputs[i]).exc # None
    THEN ParseOutputs_SkipUnparsed(outputs, i + 1, results)
    ELSE ParseOutputs_SkipUnparsed(outputs, i + 1,
             Append(results, ValidatorStatusParse(outputs[i]).val))

\* The loop of ValidatorStatusParser.parse over outputs[i..], results being the
\* statuses collected so far; the first exception ends it.
RECURSIVE ParseOutputs(_, _, _)
ParseOutputs(outputs, i, results) ==
    IF i > Len(outputs) THEN Return(results)
    ELSE IF IsBlank(outputs[i]) THEN ParseOutputs(outputs, i + 1, results)
    ELSE LET r == ValidatorStatusParse(outputs[i])
         IN  IF r.exc # None THEN r
             ELSE ParseOutputs(outputs, i + 1, Append(results, r.val))

ValidatorStatusParserParse(output) == ParseOutputs(SplitBlocks(output), 1, <<>>)

(***************************************************************************)
(* The text the validator writes (spec section 6): the lines that the      *)
(* patterns of ValidatorStatus.parse are written for.                      *)
(***************************************************************************)
RECURSIVE Dashes(_)
Dashes(n) == IF n = 0 THEN <<>> ELSE <<DASH>> \o Dashes(n - 1)

DigitToken(n) ==
    CASE n = 0 -> "0" [] n = 1 -> "1" [] n = 2 -> "2" [] n = 3 -> "3"
      [] n = 4 -> "4" [] n = 5 -> "5" [] n = 6 -> "6" [] n = 7 -> "7"
      [] n = 8 -> "8" [] n = 9 -> "9"

\* str(n) for 0 <= n <= 99
IntText(n) ==
    IF n < 10 THEN <<DigitToken(n)>>
    ELSE <<DigitToken(n \div 10), DigitToken(n % 10)>>

\* "-- <file> -----...\n" (form 1) or "  Validate <file>\n" (form 2)
MarkerLine(file, form, dashes) ==
    IF form = 1
    THEN <<DASH, DASH, SP>> \o file \o <<SP>> \o Dashes(dashes) \o <<NL>>
    ELSE <<SP, SP, "Validate", SP>> \o file \o <<NL>>

SummaryLine(keyword, e, w, n) ==
    <<keyword, ":", SP>> \o IntText(e) \o <<SP, "errors,", SP>> \o IntText(w)
        \o <<SP, "warnings,", SP>> \o IntText(n) \o <<SP, "notes", NL>>

MessageLine(word, text) == <<SP, SP, word, SP, "@", SP>> \o text \o <<NL>>

RECURSIVE MessageLines(_)
MessageLines(words) ==
    IF words = <<>> THEN <<>>
    ELSE MessageLine(Head(words), <<"Patient.name:", SP, "x">>)
             \o MessageLines(Tail(words))

\* What a block reports: its summary line and its message lines.
BlockKinds ==
    {[keyword |-> "Success", e |-> 0, w |-> 0, n |-> 0, lines |-> <<>>],
     [keyword |-> "*FAILURE*", e |-> 12, w |-> 1, n |-> 0,
      lines |-> <<"Error", "Warning">>]}

InstanceBlock(file, form, dashes, kind) ==
    MarkerLine(file, form, dashes)
        \o SummaryLine(kind.keyword, kind.e, kind.w, kind.n)
        \o MessageLines(kind.lines)

SeparatorLine(dashes) == Dashes(dashes) \o <<NL>>

\* A blank block is blank lines or, after a separator line, nothing at all.  A
\* separator line separates: it follows the line break of the piece before it, so
\* a transcript does not begin with one.
BlankLines == {<<SP, NL>>}
BlankBlocks == BlankLines \cup {<<>>}

\* Filenames: parse_fsh_generated globs "*.json", so every instance filename
\* ends in ".json"; the rest is any text without a line break, here also text
\* that looks like a marker of its own.
FileNames ==
    {<<"a", ".json">>,
     <<DASH, DASH, SP, "b", SP, DASH, DASH, DASH, DASH, DASH, ".json">>,
     <<"c", SP, SP, "Validate", SP, ".json">>}

(***************************************************************************)
(* The workspace of a run: the resources SUSHI generated, as               *)
(* parse_fsh_generated indexes them.                                       *)
(***************************************************************************)
Url(id) == "http://example.org/StructureDefinition/" \o id
CoreUrl(type) == "http://hl7.org/fhir/StructureDefinition/" \o type
Loinc == "http://loinc.org"

\* <path_output>/<prefix>-<id>.json, resolved
ResourceFile(prefix, id) ==
    <<"/ig/fsh", DASH, "generated/resources/" \o prefix, DASH, id, ".json">>

ig_id == "example.ig"
ig_fname == Str(ResourceFile("ImplementationGuide", ig_id))
fname_validator == "/ig/validator_cli.jar"
fhir_version == "4.0.1"

\* parse_structure_definition
StructureDefinition(id, type, base, profilesAdditional, abstract) ==
    [filename |-> ResourceFile("StructureDefinition", id),
     id |-> id,
     type |-> type,
     base |-> base,
     profilesAdditional |-> profilesAdditional,
     abstract |-> abstract]

\* The profiles of the implementation guide: PatientProfile is based on the
\* core Patient, ObsProfile is based on the abstract BaseProfile and refers to
\* PatientProfile from an element.
sdefs ==
    (Url("BaseProfile") :>
        StructureDefinition("BaseProfile", "Observation", CoreUrl("Observation"),
                            <<>>, TRUE))
    @@ (Url("PatientProfile") :>
        StructureDefinition("PatientProfile", "Patient", CoreUrl("Patient"), <<>>, FALSE))
    @@ (Url("ObsProfile") :>
        StructureDefinition("ObsProfile", "Observation", Url("BaseProfile"),
                            <<Url("PatientProfile")>>, FALSE))

\* parse_instance: json.profile is what "$.meta.profile" finds (no element when
\* the resource has no meta.profile).
parse_instance(fname, json) ==
    [filename |-> fname,
     profile |-> IF Len(json.profile) = 0 THEN json.resourceType
                 ELSE json.profile[1],
     explicitProfile |-> Len(json.profile) # 0,
     resourceType |-> json.resourceType,
     codeSystems |-> json.codeSystems,
     profilesAdditional |-> IF json.resourceType = "Bundle"
                            THEN json.entryProfiles ELSE <<>>]

\* The generated instance resources, by id.
InstanceJson ==
    ("PatientExample" :>
        [resourceType |-> "Patient", profile |-> <<Url("PatientProfile")>>,
         codeSystems |-> {}, entryProfiles |-> <<>>])
    @@ ("ObsExample" :>
        [resourceType |-> "Observation", profile |-> <<Url("ObsProfile")>>,
         codeSystems |-> {Loinc}, entryProfiles |-> <<>>])
    @@ ("PlainPatient" :>
        [resourceType |-> "Patient", profile |-> <<>>,
         codeSystems |-> {}, entryProfiles |-> <<>>])

instances ==
    [id \in DOMAIN InstanceJson |->
        parse_instance(ResourceFile(InstanceJson[id].resourceType, id),
                       InstanceJson[id])]

(***************************************************************************)
(* deduplicate_obi_codes.  A file is its layout, as SUSHI generated it or  *)
(* as json.dump(indent=2) wrote it, and its JSON; an identifier is its     *)
(* type.coding list; a coding has a code and, unless it is free of a       *)
(* system, a system.                                                       *)
(***************************************************************************)
V2_0203 == "http://terminology.hl7.org/CodeSystem/v2-0203"

ObiCoding == [system |-> V2_0203, code |-> "OBI"]
MrCoding == [system |-> V2_0203, code |-> "MR"]
CodeOnlyCoding == [code |-> "OBI"]

Identifier(codings) == [type |-> [coding |-> codings]]

\* The filter [?code = 'OBI' & system='http://.../v2-0203'] of num_obi_codes.
MatchesObi(coding) ==
    /\ "code" \in DOMAIN coding
    /\ "system" \in DOMAIN coding
    /\ coding.code = "OBI"
    /\ coding.system = V2_0203

num_obi_codes(identifier) ==
    Cardinality({i \in 1..Len(identifier.type.coding) :
                    MatchesObi(identifier.type.coding[i])})

\* codings without its i-th element
Del(codings, i) ==
    SubSeq(codings, 1, i - 1) \o SubSeq(codings, i + 1, Len(codings))

\* The loop of del_obi_codes from the i-th coding on: the codings it leaves,
\* or the KeyError of coding["system"].
RECURSIVE DelObiCodesFrom(_, _)
DelObiCodesFrom(codings, i) ==
    IF i > Len(codings) THEN Return(codings)
    ELSE IF "system" \notin DOMAIN codings[i] THEN Raise("KeyError")
    ELSE IF codings[i].system = V2_0203 /\ codings[i].code = "OBI"
    THEN Return(Del(codings, i))
    ELSE DelObiCodesFrom(codings, i + 1)

del_obi_codes(identifier) == DelObiCodesFrom(identifier.type.coding, 1)

\* The loop over json_data["identifier"] from the k-th identifier on.
RECURSIVE DeduplicateIdentifiers(_, _)
DeduplicateIdentifiers(identifiers, k) ==
    IF k > Len(identifiers) THEN Return(identifiers)
    ELSE IF num_obi_codes(identifiers[k]) > 1
    THEN (IF del_obi_codes(identifiers[k]).exc # None
          THEN del_obi_codes(identifiers[k])
          ELSE DeduplicateIdentifiers(
                   [identifiers EXCEPT ![k] =
                       Identifier(del_obi_codes(identifiers[k]).val)],
                   k + 1))
    ELSE DeduplicateIdentifiers(identifiers, k + 1)

\* The file after the call, or the exception that left it as it was.  A file
\* without identifier is not written.
Dumped(file, identifiers) ==
    IF identifiers.exc # None THEN identifiers
    ELSE Return([layout |-> "dumped",
                 json |-> [file.json EXCEPT !.identifier = identifiers.val]])

deduplicate_obi_codes(file) ==
    IF "identifier" \notin DOMAIN file.json THEN Return(file)
    ELSE Dumped(file, DeduplicateIdentifiers(file.json.identifier, 1))

\* The identifiers of the generated instance resources: ObsExample has the
\* OBI coding twice.
Identifiers ==
    ("ObsExample" :> <<Identifier(<<ObiCoding, MrCoding, ObiCoding>>)>>)
    @@ ("PlainPatient" :> <<Identifier(<<MrCoding>>)>>)

\* The instance files as SUSHI generated them.
GeneratedFiles ==
    [id \in DOMAIN InstanceJson |->
        [layout |-> "generated",
         json |-> IF id \in DOMAIN Identifiers
                  THEN ("identifier" :> Identifiers[id]) @@ InstanceJson[id]
                  ELSE InstanceJson[id]]]

\* The orders instances.items() may have: that of the directory listing of
\* path.glob("*.json"), which nothing sorts.
InstanceOrders ==
    {ids \in [1..Cardinality(DOMAIN InstanceJson) -> DOMAIN InstanceJson] :
        \A i, j \in DOMAIN ids : ids[i] = ids[j] => i = j}

\* The loop over the instances that rewrites nothing.
DeduplicateInstanceFiles_None(files, ids, done) ==
    [files |-> files, done |-> done, exc |-> None]

\* The loop of _validate_fsh_files over the instances, ids being those still
\* to come and done those deduplicated: the files it leaves, the instances it
\* deduplicated and the exception that ended it.
RECURSIVE DeduplicateInstanceFiles(_, _, _)
DeduplicateInstanceFiles(files, ids, done) ==
    IF ids = <<>> THEN [files |-> files, done |-> done, exc |-> None]
    ELSE IF deduplicate_obi_codes(files[Head(ids)]).exc # None
    THEN [files |-> files, done |-> done,
          exc |-> deduplicate_obi_codes(files[Head(ids)]).exc]
    ELSE DeduplicateInstanceFiles(
             [files EXCEPT ![Head(ids)] = deduplicate_obi_codes(files[Head(ids)]).val],
             Tail(ids), Append(done, Head(ids)))

\* parse_ig, parse_value_set, parse_code_system and the extensions
deps ==
    "de.basisprofil.r4" :> [packageId |-> "de.basisprofil.r4", version |-> "1.0.0"]

vs ==
    "http://example.org/ValueSet/gender" :>
        [filename |-> ResourceFile("ValueSet", "gender"), id |-> "gender"]

cs ==
    "http://example.org/CodeSystem/gender" :>
        [filename |-> ResourceFile("CodeSystem", "gender"), id |-> "gender"]

\* The StructureDefinitions of type Extension, which parse_fsh_generated keeps
\* apart from sdefs.
extensions ==
    Url("birthPlace") :>
        StructureDefinition("birthPlace", "Extension", CoreUrl("Extension"),
                            <<>>, FALSE)

get_abstract_profile_ids(sd) == {sd[u].id : u \in {v \in DOMAIN sd : sd[v].abstract}}

(***************************************************************************)
(* The FSH sources: what parse_fsh finds in a file, in order of            *)
(* appearance.  An instance is declared InstanceOf the profile that its    *)
(* generated resource names, or of its resource type.                      *)
(***************************************************************************)
FshProfile(id, parent) == [profile |-> id, parent |-> parent, id |-> id]
FshInstance(id, instanceof) == [instance |-> id, instanceof |-> instanceof]

AllFshProfiles ==
    <<FshProfile("PatientProfile", "Patient"),
      FshProfile("ObsProfile", "BaseProfile"),
      FshProfile("BaseProfile", "Observation")>>

AllFshInstances ==
    <<FshInstance("PatientExample", "PatientProfile"),
      FshInstance("ObsExample", "ObsProfile"),
      FshInstance("PlainPatient", "Patient")>>

\* The elements of seq at the positions in S, from position k on, in order.
RECURSIVE Pick(_, _, _)
Pick(seq, S, k) ==
    IF k > Len(seq) THEN <<>>
    ELSE (IF k \in S THEN <<seq[k]>> ELSE <<>>) \o Pick(seq, S, k + 1)

\* The contents a source file may have.
FshFiles ==
    {[profiles |-> Pick(AllFshProfiles, P, 1),
      instances |-> Pick(AllFshInstances, I, 1)] :
        P \in SUBSET (1..Len(AllFshProfiles)),
        I \in SUBSET (1..Len(AllFshInstances))}

Range(seq) == {seq[k] : k \in 1..Len(seq)}

(***************************************************************************)
(* check_instances_availability                                            *)
(***************************************************************************)
\* The test for an instance made on the generated resources of the whole
\* project instead of the instances of the file.
HasInstance_InProject(p, fsh_insts) ==
    \E id \in DOMAIN instances : instances[id].profile = Url(p.id)

HasInstance(p, fsh_insts) ==
    \E k \in 1..Len(fsh_insts) : fsh_insts[k].instanceof = p.id

RECURSIVE ProfilesWithoutInstance(_, _, _, _)
ProfilesWithoutInstance(fsh_profs, fsh_insts, abstract_profiles, k) ==
    IF k > Len(fsh_profs) THEN <<>>
    ELSE (IF fsh_profs[k].id \in abstract_profiles
             \/ HasInstance(fsh_profs[k], fsh_insts)
          THEN <<>> ELSE <<fsh_profs[k].id>>)
         \o ProfilesWithoutInstance(fsh_profs, fsh_insts, abstract_profiles, k + 1)

\* A check that finds every profile provided with an instance.
check_instances_availability_None(fsh_profs, fsh_insts, abstract_profiles) == <<>>

check_instances_availability(fsh_profs, fsh_insts, abstract_profiles) ==
    ProfilesWithoutInstance(fsh_profs, fsh_insts, abstract_profiles, 1)

(***************************************************************************)
(* get_profile_chain and get_profiles_to_include, which no function of the *)
(* package calls.                                                          *)
(***************************************************************************)
\* The depth at which the interpreter ends a recursion with RecursionError.
RecursionLimit == 4

\* _traverse returning after its append, without following the base.
Traverse_NoRecursion(sd, profile, res, depth) ==
    IF profile \notin DOMAIN sd THEN Raise("KeyError")
    ELSE Return(Append(res, profile))

\* _traverse(profile, res) entered at the given depth of recursion: res with
\* the profiles appended by this call and the calls it makes, or the
\* exception that ends it.
RECURSIVE Traverse(_, _, _, _)
Traverse(sd, profile, res, depth) ==
    IF profile \notin DOMAIN sd THEN Raise("KeyError")
    ELSE IF sd[profile].base \in DOMAIN sd
    THEN (IF depth >= RecursionLimit THEN Raise("RecursionError")
          ELSE Traverse(sd, sd[profile].base, Append(res, profile), depth + 1))
    ELSE Return(Append(res, profile))

get_profile_chain(sd, profile) == Traverse(sd, profile, <<>>, 1)

\* profiles_queue += [p for p in additional if p not in profiles_processed]
ExtendQueue(profiles_queue, additional, profiles_processed) ==
    profiles_queue \o SelectSeq(additional,
                                LAMBDA q : q \notin Range(profiles_processed))

\* One pass of the loop body for an indexed profile, the chain being what
\* get_profile_chain returned or raised.
RECURSIVE ProfilesQueueLoop(_, _, _, _, _)
IncludeChain(sd, profiles_queue, k, processed, profiles_to_include, chain) ==
    IF chain.exc # None THEN chain
    ELSE ProfilesQueueLoop(sd,
             ExtendQueue(profiles_queue, sd[profiles_queue[k]].profilesAdditional,
                         processed),
             k + 1, processed, profiles_to_include \o chain.val)

\* The loop over profiles_queue, which grows while it is iterated, from its
\* k-th element on; set(profiles_to_include) when it ends.
ProfilesQueueLoop(sd, profiles_queue, k, profiles_processed, profiles_to_include) ==
    IF k > Len(profiles_queue) THEN Return(Range(profiles_to_include))
    ELSE IF profiles_queue[k] \in Range(profiles_processed)
    THEN ProfilesQueueLoop(sd, profiles_queue, k + 1, profiles_processed,
                           profiles_to_include)
    ELSE IF profiles_queue[k] \in DOMAIN sd
    THEN IncludeChain(sd, profiles_queue, k,
                      Append(profiles_processed, profiles_queue[k]),
                      profiles_to_include,
                      get_profile_chain(sd, profiles_queue[k]))
    ELSE ProfilesQueueLoop(sd, profiles_queue, k + 1,
                           Append(profiles_processed, profiles_queue[k]),
                           profiles_to_include)

get_profiles_to_include(sd, instance) ==
    ProfilesQueueLoop(sd,
        IF instance.resourceType = "Bundle"
        THEN <<instance.profile>> \o instance.profilesAdditional
        ELSE <<instance.profile>>,
        1, <<>>, <<>>)

(***************************************************************************)
(* _validate_fsh_files: the statuses it makes itself.                      *)
(***************************************************************************)
NoInstanceStatus(p) ==
    ValidatorStatus(NoneText, FAILURE,
                    <<"No instances defined for profile " \o p>>, <<>>, p, "")

SkippedCodeSystemStatus(fsh_instance) ==
    ValidatorStatus(NoneText, WARNING, <<>>,
        <<"Skipped instance " \o fsh_instance.instance
            \o " due to excluded code system(s) used in the instance">>,
        fsh_instance.instanceof, "")

SkippedResourceTypeStatus(fsh_instance, instance) ==
    ValidatorStatus(NoneText, WARNING, <<>>,
        <<"Skipped instance " \o fsh_instance.instance
            \o " due to excluded resource type " \o instance.resourceType>>,
        fsh_instance.instanceof, "")

\* The two exclusion tests, the code systems first.
ExcludedByCodeSystem(instance, ecs) == instance.codeSystems \cap ecs # {}
ExcludedByResourceType(instance, ert) == instance.resourceType \in ert
Excluded(instance, ecs, ert) ==
    ExcludedByCodeSystem(instance, ecs) \/ ExcludedByResourceType(instance, ert)

CleanedRow(fsh_instance, instance) ==
    [instance |-> fsh_instance.instance,
     instanceof |-> fsh_instance.instanceof,
     filename |-> instance.filename,
     profile |-> instance.profile,
     explicit_profile |-> instance.explicitProfile]

\* The loop over the instances of one file, from the k-th on: the statuses it
\* appends to results, and the rows it appends to fsh_instances_cleaned.
RECURSIVE SkippedStatuses(_, _, _, _)
SkippedStatuses(fsh_insts, ecs, ert, k) ==
    IF k > Len(fsh_insts) THEN <<>>
    ELSE LET instance == instances[fsh_insts[k].instance]
         IN  (IF ExcludedByCodeSystem(instance, ecs)
              THEN <<SkippedCodeSystemStatus(fsh_insts[k])>>
              ELSE IF ExcludedByResourceType(instance, ert)
              THEN <<SkippedResourceTypeStatus(fsh_insts[k], instance)>>
              ELSE <<>>)
             \o SkippedStatuses(fsh_insts, ecs, ert, k + 1)

RECURSIVE CleanedRows(_, _, _, _)
CleanedRows(fsh_insts, ecs, ert, k) ==
    IF k > Len(fsh_insts) THEN <<>>
    ELSE LET instance == instances[fsh_insts[k].instance]
         IN  (IF Excluded(instance, ecs, ert) THEN <<>>
              ELSE <<CleanedRow(fsh_insts[k], instance)>>)
             \o CleanedRows(fsh_insts, ecs, ert, k + 1)

RECURSIVE NoInstanceStatuses(_)
NoInstanceStatuses(ps) ==
    IF ps = <<>> THEN <<>>
    ELSE <<NoInstanceStatus(Head(ps))>> \o NoInstanceStatuses(Tail(ps))

(***************************************************************************)
(* The grouping of the instances to validate (pandas).                     *)
(***************************************************************************)
\* df.loc[df["explicit-profile"], "profile"] = None
NullExplicitProfile(row) ==
    IF row.explicit_profile THEN [row EXCEPT !.profile = None] ELSE row

DataFrame(rows) == [k \in 1..Len(rows) |-> NullExplicitProfile(rows[k])]

\* The keys a group may have, ascending as groupby sorts them; with
\* dropna=False the null key comes last.
SortedKeys == <<"Bundle", "Observation", "Patient", None>>

GroupBy(df) ==
    LET keys == SelectSeq(SortedKeys, LAMBDA key : \E k \in 1..Len(df) : df[k].profile = key)
    IN  [j \in 1..Len(keys) |->
            [profile |-> keys[j],
             rows |-> SelectSeq(df, LAMBDA row : row.profile = keys[j])]]

(***************************************************************************)
(* run_validation                                                          *)
(***************************************************************************)
RECURSIVE FileArguments(_)
FileArguments(rows) ==
    IF rows = <<>> THEN <<>>
    ELSE <<Str(Head(rows).filename)>> \o FileArguments(Tail(rows))

DependencyArguments ==
    LET ids == DOMAIN deps
    IN  IF ids = {} THEN <<>>
        ELSE LET dep == deps[CHOOSE d \in ids : TRUE]
             IN  <<"-ig " \o dep.packageId \o "#" \o dep.version>>

Command(profile, rows) ==
    <<"java", "-jar " \o fname_validator, "-version " \o fhir_version,
      "-txLog logs/txlog.html">>
        \o DependencyArguments
        \o <<"-ig " \o ig_fname>>
        \o (IF profile # None THEN <<"-profile " \o profile>> ELSE <<>>)
        \o FileArguments(rows)

\* try: status = ValidatorStatusParser.parse(output_s), except Exception: raise
\* ValidatorOutputParsingException
ParsedOrRaised(status) ==
    IF status.exc # None THEN Raise("ValidatorOutputParsingException") ELSE status

\* execute_validator on the text that the validator wrote.
execute_validator(output) == ParsedOrRaised(ValidatorStatusParserParse(output))

ParsingFailureStatus(output) ==
    ValidatorStatus(output, FAILURE, <<"Error during validator execution">>,
                    <<>>, "", "")

\* The loop over zip(status, instances.iterrows()).
Label(status, rows) ==
    [k \in 1..Len(status) |->
        IF k <= Len(rows)
        THEN [status[k] EXCEPT !.instance = rows[k].instance,
                               !.profile = rows[k].profile]
        ELSE status[k]]

FilenamesMatch(status, rows) ==
    \A k \in 1..Len(status) :
        k <= Len(rows) => status[k].instance_filename = rows[k].filename

\* run_validation from the end of execute_validator on, status being what
\* execute_validator returned or raised.
Labelled(rows, output, status) ==
    IF status.exc # None THEN Return(<<ParsingFailureStatus(output)>>)
    ELSE IF ~FilenamesMatch(status.val, rows) THEN Raise("AssertionError")
    ELSE Return(Label(status.val, rows))

run_validation(profile, rows, output) ==
    Labelled(rows, output, execute_validator(output))

(***************************************************************************)
(* What the validator may write for the files of one invocation.           *)
(***************************************************************************)
RECURSIVE Transcript(_, _, _)
Transcript(files, form, kind) ==
    IF files = <<>> THEN <<>>
    ELSE InstanceBlock(Head(files), form, 5, kind) \o SeparatorLine(4)
             \o Transcript(Tail(files), form, kind)

Reverse(seq) == [k \in 1..Len(seq) |-> seq[Len(seq) + 1 - k]]

Front(seq) == SubSeq(seq, 1, Len(seq) - 1)

Garbage == <<"Exception", SP, "in", SP, "thread", SP, "main", NL>>

\* One block per file in the order of the command line, or the blocks in
\* another order, or all blocks but the last, or one block more, or text that
\* is no block,
\* or the blocks and then a block without summary line, or nothing.
ValidatorOutputs(rows) ==
    LET files == [k \in 1..Len(rows) |-> rows[k].filename]
        form == IF Len(files) = 1 THEN 2 ELSE 1
        success == CHOOSE kind \in BlockKinds : kind.keyword = "Success"
    IN  {Transcript(files, form, success),
         Transcript(Reverse(files), form, success),
         Transcript(Front(files), form, success),
         Transcript(Append(files, files[1]), 1, success),
         Garbage,
         Transcript(files, form, success) \o MarkerLine(files[1], form, 5),
         <<>>}

(***************************************************************************)
(* main: the verdict of the run.                                           *)
(***************************************************************************)
\* failed() that takes everything but Success for a failure.
failed_NotSuccess(status) == status.status # SUCCESS

failed(status) == status.status = FAILURE

AnyFailed(res) == \E k \in 1..Len(res) : failed(res[k])

(***************************************************************************)
(* The state of a run.                                                     *)
(***************************************************************************)
VARIABLES
    pc,                       \* where the run is
    n_files,                  \* len(fnames)
    i_file,                        \* files processed
    exclude_code_systems,
    exclude_resource_types,
    fsh_profiles,             \* what parse_fsh read from the last file
    fsh_instances,
    declared,                 \* history: the declarations of all files read
    results,
    fsh_instances_cleaned,
    groups,                   \* the groups of df.groupby, in order
    g,                        \* groups validated
    invocations,              \* history: the calls of run_validation
    exception,                \* the exception that ended the run
    exit_code,                \* <<>> until main calls sys.exit
    instance_files,           \* the instance files on disk
    rewrites                  \* history: for each instance deduplicated, the
                              \* number of invocations made before

VARIABLES p_dashes, p_names, p_pieces, p_text, p_result

VARIABLES b_lines, b_result

VARIABLES x_sdefs, x_call, x_result

VARIABLES d_file, d_before, d_count, d_exc

rvars == <<pc, n_files, i_file, exclude_code_systems, exclude_resource_types,
           fsh_profiles, fsh_instances, declared, results,
           fsh_instances_cleaned, groups, g, invocations, exception, exit_code,
           instance_files, rewrites>>

pvars == <<p_dashes, p_names, p_pieces, p_text, p_result>>

bvars == <<b_lines, b_result>>

xvars == <<x_sdefs, x_call, x_result>>

dvars == <<d_file, d_before, d_count, d_exc>>

\* The files on disk and the history of their deduplication.
fvars == <<instance_files, rewrites>>

vars == <<rvars, pvars, bvars, xvars, dvars>>

\* The state of _validate_fsh_files after parse_fsh_generated read the index.
RunInit ==
    /\ pc = "index"
    /\ n_files \in 0..MaxFiles
    /\ i_file = 0
    /\ exclude_code_systems \in SUBSET {Loinc}
    /\ exclude_resource_types \in SUBSET {"Patient"}
    /\ fsh_profiles = <<>>
    /\ fsh_instances = <<>>
    /\ declared = [profiles |-> {}, instances |-> {}]
    /\ results = <<>>
    /\ fsh_instances_cleaned = <<>>
    /\ groups = <<>>
    /\ g = 0
    /\ invocations = <<>>
    /\ exception = None
    /\ exit_code = <<>>
    /\ instance_files = GeneratedFiles
    /\ rewrites = <<>>

\* No run.
RunIdle ==
    /\ pc = "idle"
    /\ n_files = 0
    /\ i_file = 0
    /\ exclude_code_systems = {}
    /\ exclude_resource_types = {}
    /\ fsh_profiles = <<>>
    /\ fsh_instances = <<>>
    /\ declared = [profiles |-> {}, instances |-> {}]
    /\ results = <<>>
    /\ fsh_instances_cleaned = <<>>
    /\ groups = <<>>
    /\ g = 0
    /\ invocations = <<>>
    /\ exception = None
    /\ exit_code = <<>>
    /\ instance_files = GeneratedFiles
    /\ rewrites = <<>>

\* The workaround loop before the loop over fnames: every instance file of
\* the index is deduplicated in turn, in the order of the index; an exception
\* of deduplicate_obi_codes ends the run.
DeduplicateInstances ==
    /\ pc = "index"
    /\ \E ids \in InstanceOrders :
          /\ instance_files' =
                DeduplicateInstanceFiles(instance_files, ids, <<>>).files
          /\ rewrites' =
                [id \in Range(DeduplicateInstanceFiles(instance_files, ids, <<>>).done)
                    |-> Len(invocations)]
          /\ exception' = DeduplicateInstanceFiles(instance_files, ids, <<>>).exc
    /\ pc' = IF exception' # None THEN "raised" ELSE "files"
    /\ UNCHANGED <<n_files, i_file, exclude_code_systems, exclude_resource_types,
                   fsh_profiles, fsh_instances, declared, results,
                   fsh_instances_cleaned, groups, g, invocations, exit_code,
                   pvars, bvars, xvars, dvars>>

\* The next file does not exist: FileNotFoundError.
FileMissing ==
    /\ pc = "files"
    /\ i_file < n_files
    /\ pc' = "raised"
    /\ exception' = "FileNotFoundError"
    /\ UNCHANGED <<n_files, i_file, exclude_code_systems, exclude_resource_types,
                   fsh_profiles, fsh_instances, declared, results,
                   fsh_instances_cleaned, groups, g, invocations, exit_code, fvars, pvars, bvars, xvars, dvars>>

\* One iteration of the loop over fnames: parse the file, then either report
\* its profiles without an instance and go on to the next file, or sort its
\* instances into skipped ones and ones to validate.
ProcessFile ==
    /\ pc = "files"
    /\ i_file < n_files
    /\ \E file \in FshFiles :
          LET without == check_instances_availability(
                             file.profiles, file.instances,
                             get_abstract_profile_ids(sdefs))
          IN  /\ fsh_profiles' = file.profiles
              /\ fsh_instances' = file.instances
              /\ declared' =
                    [profiles |-> declared.profiles \cup Range(file.profiles),
                     instances |-> declared.instances \cup Range(file.instances)]
              /\ IF Len(without) # 0
                 THEN /\ results' = results \o NoInstanceStatuses(without)
                      /\ UNCHANGED fsh_instances_cleaned
                 ELSE /\ results' = results \o SkippedStatuses(
                             file.instances, exclude_code_systems,
                             exclude_resource_types, 1)
                      /\ fsh_instances_cleaned' = fsh_instances_cleaned
                             \o CleanedRows(file.instances, exclude_code_systems,
                                            exclude_resource_types, 1)
    /\ i_file' = i_file + 1
    /\ UNCHANGED <<pc, n_files, exclude_code_systems, exclude_resource_types,
                   groups, g, invocations, exception, exit_code, fvars, pvars, bvars, xvars, dvars>>

\* After the loop: the data frame and its groups.  A data frame made of no row
\* has no column, and df["explicit-profile"] raises KeyError.
GroupInstances ==
    /\ pc = "files"
    /\ i_file = n_files
    /\ IF fsh_instances_cleaned = <<>>
       THEN /\ pc' = "raised"
            /\ exception' = "KeyError"
            /\ UNCHANGED groups
       ELSE /\ pc' = "validate"
            /\ groups' = GroupBy(DataFrame(fsh_instances_cleaned))
            /\ UNCHANGED exception
    /\ UNCHANGED <<n_files, i_file, exclude_code_systems, exclude_resource_types,
                   fsh_profiles, fsh_instances, declared, results, fsh_instances_cleaned, g, invocations,
                   exit_code, fvars, pvars, bvars, xvars, dvars>>

\* One iteration of the loop over the groups: run_validation on the next group,
\* whose value _validate_fsh_files does not use; after the last group
\* _validate_fsh_files returns results.
RunValidation ==
    /\ pc = "validate"
    /\ g < Len(groups)
    /\ \E output \in ValidatorOutputs(groups[g + 1].rows) :
          invocations' = Append(invocations,
              [cmd |-> Command(groups[g + 1].profile, groups[g + 1].rows),
               profile |-> groups[g + 1].profile,
               rows |-> groups[g + 1].rows,
               output |-> output,
               status |-> run_validation(groups[g + 1].profile,
                                         groups[g + 1].rows, output)])
    /\ IF invocations'[g + 1].status.exc # None
       THEN pc' = "raised" /\ exception' = invocations'[g + 1].status.exc
       ELSE /\ pc' = IF g + 1 = Len(groups) THEN "returned" ELSE "validate"
            /\ UNCHANGED exception
    /\ g' = g + 1
    /\ UNCHANGED <<n_files, i_file, exclude_code_systems, exclude_resource_types,
                   fsh_profiles, fsh_instances, declared, results,
                   fsh_instances_cleaned, groups, exit_code, fvars, pvars, bvars, xvars, dvars>>

\* main, after validate_fsh or validate_all_fsh returned results.
Exit ==
    /\ pc = "returned"
    /\ exit_code' = IF AnyFailed(results) THEN <<1>> ELSE <<0>>
    /\ pc' = "exited"
    /\ UNCHANGED <<n_files, i_file, exclude_code_systems, exclude_resource_types,
                   fsh_profiles, fsh_instances, declared, results,
                   fsh_instances_cleaned, groups, g, invocations, exception, fvars, pvars, bvars, xvars, dvars>>

Next == DeduplicateInstances \/ FileMissing \/ ProcessFile \/ GroupInstances \/ RunValidation \/ Exit

(***************************************************************************)
(* The output parser on synthetic transcripts: a transcript is built piece *)
(* by piece (instance blocks and blank blocks, a line of dashes between    *)
(* two pieces) and parsed.                                                 *)
(***************************************************************************)
\* p_dashes is the length of the transcript's separator lines; the dashes that
\* end a filename marker are one more.
PInit ==
    /\ p_dashes \in {4, 5, 6}
    /\ p_names = <<>>
    /\ p_pieces = 0
    /\ p_text = <<>>
    /\ p_result = ValidatorStatusParserParse(<<>>)

\* The transcript with one more piece, a separator line before it.
Extend(text, pieces, piece, dashes) ==
    IF pieces = 0 THEN piece ELSE text \o SeparatorLine(dashes) \o piece

PAddBlock ==
    /\ Len(p_names) < MaxBlocks
    /\ \E file \in FileNames, form \in {1, 2}, kind \in BlockKinds :
          /\ p_text' = Extend(p_text, p_pieces,
                              InstanceBlock(file, form, p_dashes + 1, kind),
                              p_dashes)
          /\ p_names' = Append(p_names, file)
    /\ p_pieces' = p_pieces + 1
    /\ p_result' = ValidatorStatusParserParse(p_text')
    /\ UNCHANGED <<p_dashes, rvars, bvars, xvars, dvars>>

PAddBlank ==
    /\ p_pieces = Len(p_names)
    /\ \E blank \in (IF p_pieces = 0 THEN BlankLines ELSE BlankBlocks) :
          p_text' = Extend(p_text, p_pieces, blank, p_dashes)
    /\ p_pieces' = p_pieces + 1
    /\ p_result' = ValidatorStatusParserParse(p_text')
    /\ UNCHANGED <<p_dashes, p_names, rvars, bvars, xvars, dvars>>

PNext == PAddBlock \/ PAddBlank

\* No transcript under construction.
PIdle ==
    /\ p_dashes = 4
    /\ p_names = <<>>
    /\ p_pieces = 0
    /\ p_text = <<>>
    /\ p_result = ValidatorStatusParserParse(<<>>)

(***************************************************************************)
(* ValidatorStatus.parse on synthetic blocks: a block is built line by     *)
(* line and parsed.                                                        *)
(***************************************************************************)
\* A line of a block: its type, the word that makes it one (the sign of a
\* marker, the keyword of a summary line, the level of a message), the three
\* counts of a summary line, the file of a marker, and its text.
BlockLine(type, word, counts, file, text) ==
    [type |-> type, word |-> word, counts |-> counts, file |-> file, text |-> text]

MarkerBlockLine(file, form) ==
    BlockLine("marker", IF form = 1 THEN "--" ELSE "Validate", <<>>, file,
              MarkerLine(file, form, 5))

SummaryBlockLine(keyword, e, w, n) ==
    BlockLine("summary", keyword, <<e, w, n>>, <<>>, SummaryLine(keyword, e, w, n))

MessageBlockLine(word) ==
    BlockLine("message", word, <<>>, <<>>, MessageLines(<<word>>))

\* The lines of a block: filename markers of both forms, summary lines, and
\* message lines.
BlockLines ==
    {MarkerBlockLine(<<"a", ".json">>, 1),
     MarkerBlockLine(<<"b", ".json">>, 1),
     MarkerBlockLine(<<"a", ".json">>, 2),
     SummaryBlockLine("Success", 0, 1, 0),
     SummaryBlockLine("Success", 0, 0, 1),
     SummaryBlockLine("*FAILURE*", 1, 0, 0),
     MessageBlockLine("Error"),
     MessageBlockLine("Warning"),
     MessageBlockLine("Information")}

RECURSIVE BlockText(_)
BlockText(lines) ==
    IF lines = <<>> THEN <<>> ELSE Head(lines).text \o BlockText(Tail(lines))

BInit ==
    /\ b_lines = <<>>
    /\ b_result = ValidatorStatusParse(<<>>)

BAddLine ==
    /\ Len(b_lines) < MaxLines
    /\ \E line \in BlockLines : b_lines' = Append(b_lines, line)
    /\ b_result' = ValidatorStatusParse(BlockText(b_lines'))
    /\ UNCHANGED <<rvars, pvars, xvars, dvars>>

\* No block under construction.
BIdle ==
    /\ b_lines = <<>>
    /\ b_result = ValidatorStatusParse(<<>>)

(***************************************************************************)
(* get_profile_chain and get_profiles_to_include on synthetic indexes of   *)
(* StructureDefinitions: every profile of ProfileIds is indexed, with a    *)
(* base that is an indexed profile or the core type, and with at most one  *)
(* additional profile.                                                     *)
(***************************************************************************)
ProfileIds == {"P1", "P2", "P3"}

CoreType == "Patient"

\* The index entries of one profile: sdefs[url]["base"] and
\* sdefs[url]["profilesAdditional"].
IndexEntries ==
    [base : ProfileIds \cup {CoreType},
     profilesAdditional : {<<>>} \cup {<<q>> : q \in ProfileIds}]

\* The instances handed to get_profiles_to_include: the fields it reads.
IndexInstances ==
    [resourceType : {"Patient"}, profile : ProfileIds \cup {CoreType},
     profilesAdditional : {<<>>}]
        \cup [resourceType : {"Bundle"}, profile : ProfileIds \cup {CoreType},
              profilesAdditional : {<<>>} \cup {<<q>> : q \in ProfileIds}]

XInit ==
    /\ x_sdefs \in [ProfileIds -> IndexEntries]
    /\ x_call = <<>>
    /\ x_result = <<>>

GetProfileChain ==
    /\ x_call = <<>>
    /\ \E profile \in ProfileIds \cup {CoreType} :
          /\ x_call' = [fn |-> "get_profile_chain", profile |-> profile]
          /\ x_result' = get_profile_chain(x_sdefs, profile)
    /\ UNCHANGED <<x_sdefs, rvars, pvars, bvars, dvars>>

GetProfilesToInclude ==
    /\ x_call = <<>>
    /\ \E instance \in IndexInstances :
          /\ x_call' = [fn |-> "get_profiles_to_include", instance |-> instance]
          /\ x_result' = get_profiles_to_include(x_sdefs, instance)
    /\ UNCHANGED <<x_sdefs, rvars, pvars, bvars, dvars>>

XNext == GetProfileChain \/ GetProfilesToInclude

(***************************************************************************)
(* deduplicate_obi_codes applied again and again to one synthetic instance *)
(* file: a file without identifier, or with one or two identifiers of up   *)
(* to MaxCodings codings each.                                             *)
(***************************************************************************)
MaxCodings == 3

RECURSIVE CodingLists(_)
CodingLists(n) ==
    IF n = 0 THEN {<<>>}
    ELSE CodingLists(n - 1)
            \cup {Append(l, c) : l \in {m \in CodingLists(n - 1) : Len(m) = n - 1},
                                 c \in {ObiCoding, MrCoding, CodeOnlyCoding}}

SyntheticIdentifiers == {Identifier(l) : l \in CodingLists(MaxCodings)}

SyntheticJson ==
    {[resourceType |-> "Observation"]}
        \cup {[resourceType |-> "Observation", identifier |-> ids] :
                ids \in {<<>>} \cup {<<a>> : a \in SyntheticIdentifiers}
                        \cup {<<a, b>> : a, b \in SyntheticIdentifiers}}

SyntheticFiles == [layout : {"generated"}, json : SyntheticJson]

DInit ==
    /\ d_file \in SyntheticFiles
    /\ d_before = <<>>
    /\ d_count = 0
    /\ d_exc = None

\* One call of deduplicate_obi_codes on the file, at most two in a row.
Deduplicate ==
    /\ d_count < 2
    /\ d_exc = None
    /\ d_before' = d_file
    /\ d_count' = d_count + 1
    /\ d_exc' = deduplicate_obi_codes(d_file).exc
    /\ d_file' = IF d_exc' # None THEN d_file ELSE deduplicate_obi_codes(d_file).val
    /\ UNCHANGED <<rvars, pvars, bvars, xvars>>

\* No file under study.
DIdle ==
    /\ d_file = <<>>
    /\ d_before = <<>>
    /\ d_count = 0
    /\ d_exc = None

\* No index under study.
XIdle ==
    /\ x_sdefs = <<>>
    /\ x_call = <<>>
    /\ x_result = <<>>

(***************************************************************************)
(* The specifications: a run of the command line tool, the parser on       *)
(* synthetic transcripts, ValidatorStatus.parse on synthetic blocks, the   *)
(* profile traversals on synthetic indexes, and deduplicate_obi_codes on   *)
(* synthetic instance files.                                               *)
(***************************************************************************)
Init == RunInit /\ PIdle /\ BIdle /\ XIdle /\ DIdle

Spec == Init /\ [][Next]_vars

InitParser == PInit /\ RunIdle /\ BIdle /\ XIdle /\ DIdle

SpecParser == InitParser /\ [][PNext]_vars

InitBlock == BInit /\ RunIdle /\ PIdle /\ XIdle /\ DIdle

SpecBlock == InitBlock /\ [][BAddLine]_vars

InitIndex == XInit /\ RunIdle /\ PIdle /\ BIdle /\ DIdle

SpecIndex == InitIndex /\ [][XNext]_vars

InitDedup == DInit /\ RunIdle /\ PIdle /\ BIdle /\ XIdle

SpecDedup == InitDedup /\ [][Deduplicate]_vars

(***************************************************************************)
(* Properties of a run.                                                    *)
(***************************************************************************)
\* _validate_fsh_files has returned its list.
Returned == pc \in {"returned", "exited"}

\* The run is over, other than by a source file that does not exist.
Ended == Returned \/ (pc = "raised" /\ exception # "FileNotFoundError")

\* The profile arguments a command of this workspace may carry.
ProfileDirectives ==
    {"-profile " \o instances[id].profile : id \in DOMAIN instances}

HasProfileDirective(cmd) == Range(cmd) \cap ProfileDirectives # {}

\* The statuses of the report that are Failures for the profile id.
FailuresFor(id) ==
    {k \in 1..Len(results) : results[k].status = FAILURE /\ results[k].profile = id}

\* The statuses of the report that were made for skipping the instance I.
SkipsFor(I) ==
    {k \in 1..Len(results) :
        results[k].warnings \in
            {SkippedCodeSystemStatus(I).warnings,
             SkippedResourceTypeStatus(I, instances[I.instance]).warnings}}

PatientProfile == FshProfile("PatientProfile", "Patient")
PatientExample == FshInstance("PatientExample", "PatientProfile")

\* C1: when _validate_fsh_files returns, its list holds every status that
\* run_validation returned for every invocation of the run.
C1_AllStatusesReported ==
    Returned =>
        \A k \in 1..Len(invocations) :
            \A j \in 1..Len(invocations[k].status.val) :
                \E m \in 1..Len(results) :
                    results[m] = invocations[k].status.val[j]

\* C2: main exits with status 1 exactly when a status of the final list is a
\* Failure, and with status 0 otherwise; a Warning does not make the run fail.
C2_ExitStatus ==
    pc = "exited" =>
        /\ exit_code \in {<<0>>, <<1>>}
        /\ exit_code = <<1>> <=>
              \E k \in 1..Len(results) : results[k].status = FAILURE

\* A run that skipped an instance, validated another and exited with status 0.
C2_Witness ==
    /\ pc = "exited"
    /\ exit_code = <<0>>
    /\ \E k \in 1..Len(results) : results[k].status = WARNING
    /\ Len(invocations) > 0

\* C3: one file with the profile PatientProfile and the instance PatientExample,
\* nothing excluded, the validator reporting Success for the one file: one
\* invocation, with '-profile <url of PatientProfile>' and one file, a report
\* of one Success status, and exit status 0.
C3_EndToEnd ==
    (/\ pc = "exited"
     /\ n_files = 1
     /\ declared = [profiles |-> {PatientProfile}, instances |-> {PatientExample}]
     /\ exclude_code_systems = {}
     /\ exclude_resource_types = {}
     /\ Len(invocations) > 0
     /\ Len(invocations[1].status.val) = 1
     /\ invocations[1].status.val[1].status = SUCCESS)
    => /\ Len(invocations) = 1
       /\ ("-profile " \o Url("PatientProfile")) \in Range(invocations[1].cmd)
       /\ Len(invocations[1].rows) = 1
       /\ Len(results) = 1
       /\ results[1].status = SUCCESS
       /\ exit_code = <<0>>

\* C4: one file with the profile PatientProfile and no instance: the run
\* returns a report of exactly one status, the Failure 'No instances defined
\* for profile PatientProfile', and invokes no validator.
C4_NoInstances ==
    (/\ n_files = 1
     /\ i_file = 1
     /\ declared = [profiles |-> {PatientProfile}, instances |-> {}]
     /\ pc # "files")
    => /\ Returned
       /\ results = <<NoInstanceStatus("PatientProfile")>>
       /\ invocations = <<>>

\* C5: at the end of a run, for every declared profile that is not abstract
\* and that no declared instance is an instance of, the report holds exactly one
\* Failure for it, and no invocation is for it or passes an instance of it.
C5_ProfileWithoutInstance ==
    Ended =>
        \A P \in declared.profiles :
            (/\ P.id \notin get_abstract_profile_ids(sdefs)
             /\ ~\E I \in declared.instances : I.instanceof = P.id)
            => /\ Returned
               /\ Cardinality(FailuresFor(P.id)) = 1
               /\ \A k \in 1..Len(invocations) :
                     /\ invocations[k].profile # P.id
                     /\ \A j \in 1..Len(invocations[k].rows) :
                           invocations[k].rows[j].instanceof # P.id

\* C6: at the end of a run, for every declared instance that the exclusions
\* cover, no invocation has its file among the file arguments, and the report
\* holds exactly one status for it, a Warning.
C6_ExcludedInstance ==
    Ended =>
        \A I \in declared.instances :
            Excluded(instances[I.instance], exclude_code_systems,
                     exclude_resource_types)
            => /\ Returned
               /\ \A k \in 1..Len(invocations) :
                     Str(instances[I.instance].filename)
                         \notin Range(FileArguments(invocations[k].rows))
               /\ Cardinality(SkipsFor(I)) = 1
               /\ \A k \in SkipsFor(I) : results[k].status = WARNING

\* C7: an instance with an explicit profile is validated in the
\* group of that profile, whose command carries '-profile <that profile>'; an
\* instance without one is validated in the group without profile, whose
\* command carries no -profile directive.
C7_ExplicitProfileKept ==
    \A k \in 1..Len(invocations) :
        \A j \in 1..Len(invocations[k].rows) :
            LET instance == instances[invocations[k].rows[j].instance]
            IN  IF instance.explicitProfile
                THEN /\ invocations[k].profile = instance.profile
                     /\ ("-profile " \o instance.profile) \in Range(invocations[k].cmd)
                ELSE /\ invocations[k].profile = None
                     /\ ~HasProfileDirective(invocations[k].cmd)

\* C8: every command carries, for each of its instances, one
\* '-ig <file>' directive for the file of every profile that
\* get_profiles_to_include returns for the instance.
C8_ProfileClosureIncluded ==
    \A k \in 1..Len(invocations) :
        \A j \in 1..Len(invocations[k].rows) :
            \A p \in get_profiles_to_include(
                         sdefs, instances[invocations[k].rows[j].instance]).val :
                ("-ig " \o Str(sdefs[p].filename)) \in Range(invocations[k].cmd)

\* The files of the value sets, code systems and extensions of the index.
IndexFiles ==
    {vs[u].filename : u \in DOMAIN vs}
        \cup {cs[u].filename : u \in DOMAIN cs}
        \cup {extensions[u].filename : u \in DOMAIN extensions}

\* C9: every command carries one '-ig <file>' directive for every
\* value set, every code system and every extension of the index.
C9_IndexFilesIncluded ==
    \A k \in 1..Len(invocations) :
        \A f \in IndexFiles :
            Cardinality({i \in 1..Len(invocations[k].cmd) :
                            invocations[k].cmd[i] = "-ig " \o Str(f)}) = 1

\* C13: a run whose source files all exist raises no exception: it returns
\* its list, also when no instance remains to validate.
C13_NeverAborts == pc = "raised" => exception = "FileNotFoundError"

\* C14: an invocation whose validator wrote nothing at all yields exactly one
\* status, a Failure.
C14_NoOutputIsOneFailure ==
    \A k \in 1..Len(invocations) :
        invocations[k].output = <<>>
        => /\ invocations[k].status.exc = None
           /\ Len(invocations[k].status.val) = 1
           /\ invocations[k].status.val[1].status = FAILURE

\* A block that is not blank and has no summary line or no filename marker.
Unparsable(block) ==
    /\ ~IsBlank(block)
    /\ \/ StatusSearch(block) = 0
       \/ FilenameSearch(block)[1] = 0 /\ ValidateFindall(block, 1) = <<>>

HasUnparsableBlock(output) ==
    \E b \in 1..Len(SplitBlocks(output)) : Unparsable(SplitBlocks(output)[b])

\* C15: an invocation whose validator wrote text with a block that has no
\* summary line or no filename marker yields exactly one status, a Failure
\* whose output is the whole text; run_validation raises nothing.
C15_UnparsableIsOneFailure ==
    \A k \in 1..Len(invocations) :
        HasUnparsableBlock(invocations[k].output)
        => /\ invocations[k].status.exc = None
           /\ Len(invocations[k].status.val) = 1
           /\ invocations[k].status.val[1].status = FAILURE
           /\ invocations[k].status.val[1].output = invocations[k].output

\* An invocation whose validator wrote a well-formed block and then a block
\* without summary line.
C15_Witness ==
    \E k \in 1..Len(invocations) :
        /\ Len(SplitBlocks(invocations[k].output)) >= 2
        /\ ~Unparsable(SplitBlocks(invocations[k].output)[1])
        /\ HasUnparsableBlock(invocations[k].output)
        /\ invocations[k].status.exc = None

\* C17: every parsed status that run_validation returns is the status of the
\* instance at its position: there is such an instance, and the filename of
\* the status is the filename of that instance.
C17_FilenamesInOrder ==
    \A k \in 1..Len(invocations) :
        invocations[k].status.exc = None =>
            \A i \in 1..Len(invocations[k].status.val) :
                invocations[k].status.val[i].instance_filename # NoneText
                => /\ i <= Len(invocations[k].rows)
                   /\ invocations[k].status.val[i].instance_filename
                          = invocations[k].rows[i].filename

(***************************************************************************)
(* Properties of the output parser.                                        *)
(***************************************************************************)
\* C10: a transcript of N well-formed blocks separated by dash lines parses to
\* exactly N statuses whose instance_filename values are the N filenames in the
\* same order; blank blocks add no status.
C10_RoundTrip ==
    /\ p_result.exc = None
    /\ Len(p_result.val) = Len(p_names)
    /\ \A i \in 1..Len(p_names) :
          p_result.val[i].instance_filename = p_names[i]

\* The lines of the block of a type, in order.
LinesOf(type) == SelectSeq(b_lines, LAMBDA line : line.type = type)

\* The lines of the block of a type that have a word, in order.
LinesWith(type, word) ==
    SelectSeq(b_lines, LAMBDA line : line.type = type /\ line.word = word)

\* C11 as claimed: a block whose summary line says Success with a warning
\* count of at least 1 parses to Warning, and a block whose summary line says
\* *FAILURE* parses to Failure.
C11_DowngradeByCount ==
    b_result.exc = None =>
        /\ (/\ LinesOf("summary")[1].word = "Success"
            /\ LinesOf("summary")[1].counts[2] >= 1)
           => b_result.val.status = WARNING
        /\ LinesOf("summary")[1].word = "*FAILURE*" => b_result.val.status = FAILURE

\* C11 as amended: a block whose summary line says Success parses to Warning
\* when it has at least one '  Warning @ ' line and to Success when it has
\* none, whatever the counts of the summary line and whatever its notes; a
\* block whose summary line says *FAILURE* parses to Failure.
C11_DowngradeByLines ==
    b_result.exc = None =>
        b_result.val.status =
            IF LinesOf("summary")[1].word = "*FAILURE*" THEN FAILURE
            ELSE IF LinesWith("message", "Warning") # <<>> THEN WARNING
            ELSE SUCCESS

\* A block that says Success, has a Warning line and a note, and parses to
\* Warning.
C11_Witness ==
    /\ b_result.exc = None
    /\ LinesOf("summary")[1].word = "Success"
    /\ LinesWith("message", "Warning") # <<>>
    /\ LinesWith("message", "Information") # <<>>
    /\ b_result.val.status = WARNING

CountsAreLengths(status) ==
    /\ status.n_errors = Len(status.errors)
    /\ status.n_warnings = Len(status.warnings)
    /\ status.n_notes = Len(status.notes)

\* C12 as claimed: a parsed status has n_errors = len(errors), n_warnings =
\* len(warnings) and n_notes = len(notes).
C12_CountsAreLengths == b_result.exc = None => CountsAreLengths(b_result.val)

\* C12 as amended: a status made by the constructor has its counts equal to
\* the lengths of its lists; a parsed status has the three counts of the first
\* summary line of its block, and its lists hold the Error, Warning and
\* Information lines of the block, as many as there are.
C12_CountsFromSummary ==
    /\ \A status \in {NoInstanceStatus("PatientProfile"),
                      SkippedCodeSystemStatus(FshInstance("ObsExample", "ObsProfile")),
                      ParsingFailureStatus(Garbage)} :
          CountsAreLengths(status)
    /\ b_result.exc = None =>
          /\ <<b_result.val.n_errors, b_result.val.n_warnings, b_result.val.n_notes>>
                = LinesOf("summary")[1].counts
          /\ Len(b_result.val.errors) = Len(LinesWith("message", "Error"))
          /\ Len(b_result.val.warnings) = Len(LinesWith("message", "Warning"))
          /\ Len(b_result.val.notes) = Len(LinesWith("message", "Information"))

\* A parsed status that counts one error and lists none, and lists two
\* warnings.
C12_Witness ==
    /\ b_result.exc = None
    /\ b_result.val.n_errors = 1
    /\ b_result.val.errors = <<>>
    /\ Len(b_result.val.warnings) = 2

\* C16 as claimed: a block that has no filename marker, or more than one, does
\* not parse.
C16_ExactlyOneMarker ==
    Len(LinesOf("marker")) # 1 => b_result.exc # None

\* C16 as amended: a block with a '-- <file> -----' marker has the file of
\* the first such marker, however many markers of either form it has; a block
\* without one has the file of its '  Validate <file>' line when it has exactly
\* one, raises IndexError when it has none and ValueError when it has more;
\* a block whose filename is found parses unless it has no summary line.
C16_FirstDashMarker ==
    LET dash == LinesWith("marker", "--")
        validate == LinesWith("marker", "Validate")
        found == dash # <<>> \/ Len(validate) = 1
        file == IF dash # <<>> THEN dash[1].file ELSE validate[1].file
    IN  /\ found /\ LinesOf("summary") # <<>>
           => b_result.exc = None /\ b_result.val.instance_filename = file
        /\ found /\ LinesOf("summary") = <<>> => b_result.exc = "AttributeError"
        /\ dash = <<>> /\ Len(validate) = 0 => b_result.exc = "IndexError"
        /\ dash = <<>> /\ Len(validate) > 1 => b_result.exc = "ValueError"

\* A block with two '-- <file> -----' markers for different files and a
\* '  Validate <file>' line, which parses.
C16_Witness ==
    /\ Len(LinesWith("marker", "--")) = 2
    /\ LinesWith("marker", "--")[1].file # LinesWith("marker", "--")[2].file
    /\ LinesWith("marker", "Validate") # <<>>
    /\ b_result.exc = None
    /\ b_result.val.instance_filename = <<"b", ".json">>

\* A transcript of two blocks for different files and a blank block.
C10_Witness ==
    /\ Len(p_names) = 2
    /\ p_names[1] # p_names[2]
    /\ p_pieces = 3
    /\ p_result.exc = None
    /\ Len(p_result.val) = 2

(***************************************************************************)
(* The profile traversals.                                                 *)
(***************************************************************************)
\* The base pointers of the index are acyclic: the indexed profiles can be
\* ranked so that every indexed base ranks below the profile it is the base of.
Acyclic(sd) ==
    \E rank \in [DOMAIN sd -> 1..Cardinality(DOMAIN sd)] :
        \A p \in DOMAIN sd :
            sd[p].base \in DOMAIN sd => rank[sd[p].base] < rank[p]

\* get_profile_chain was called for an indexed profile.
ChainCalled ==
    /\ x_call # <<>>
    /\ x_call.fn = "get_profile_chain"
    /\ x_call.profile \in DOMAIN x_sdefs

\* get_profiles_to_include was called.
IncludeCalled == x_call # <<>> /\ x_call.fn = "get_profiles_to_include"

\* C18: for an index with acyclic base pointers and an indexed profile p,
\* get_profile_chain returns the list that starts with p, continues with the
\* base of its previous member, and ends at the first profile whose base is
\* not indexed; its members are indexed and none occurs twice.
C18_ChainFollowsBase ==
    ChainCalled /\ Acyclic(x_sdefs) =>
        /\ x_result.exc = None
        /\ Len(x_result.val) >= 1
        /\ x_result.val[1] = x_call.profile
        /\ \A i \in 1..(Len(x_result.val) - 1) :
              x_result.val[i + 1] = x_sdefs[x_result.val[i]].base
        /\ x_sdefs[x_result.val[Len(x_result.val)]].base \notin DOMAIN x_sdefs
        /\ \A i \in 1..Len(x_result.val) : x_result.val[i] \in DOMAIN x_sdefs
        /\ \A i, j \in 1..Len(x_result.val) :
              x_result.val[i] = x_result.val[j] => i = j

\* A chain of three profiles over acyclic base pointers.
C18_Witness ==
    /\ ChainCalled
    /\ Acyclic(x_sdefs)
    /\ x_result.exc = None
    /\ Len(x_result.val) = 3

\* C19: get_profile_chain and get_profiles_to_include finish with a result
\* for every index and every indexed profile, also when the base pointers of
\* indexed profiles form a cycle.
C19_TraversalTerminates ==
    /\ ChainCalled => x_result.exc = None
    /\ IncludeCalled => x_result.exc = None

\* C20: the set get_profiles_to_include returns holds only indexed profiles,
\* holds the profile of the instance and, for a Bundle, the profiles of its
\* entries when they are indexed, and is closed under base and
\* profilesAdditional: with a profile it holds the profile's indexed base
\* and the indexed members of the profile's profilesAdditional.
C20_TransitiveClosure ==
    IncludeCalled /\ x_result.exc = None =>
        /\ x_result.val \subseteq DOMAIN x_sdefs
        /\ x_call.instance.profile \in DOMAIN x_sdefs
              => x_call.instance.profile \in x_result.val
        /\ x_call.instance.resourceType = "Bundle" =>
              \A q \in Range(x_call.instance.profilesAdditional) :
                  q \in DOMAIN x_sdefs => q \in x_result.val
        /\ \A q \in x_result.val :
              /\ x_sdefs[q].base \in DOMAIN x_sdefs
                    => x_sdefs[q].base \in x_result.val
              /\ \A a \in Range(x_sdefs[q].profilesAdditional) :
                    a \in DOMAIN x_sdefs => a \in x_result.val

(***************************************************************************)
(* The statuses of one invocation and its instances.                       *)
(***************************************************************************)
\* run_validation returned statuses that the parser made.
ReturnedParsed(invocation) ==
    /\ invocation.status.exc = None
    /\ invocation.status.val # <<>>
    /\ \A i \in 1..Len(invocation.status.val) :
          invocation.status.val[i].instance_filename # NoneText

\* C25: when run_validation returns parsed statuses, it returns as many as
\* the invocation has instances, each labelled with the instance and the
\* profile of the instance at its position.
C25_OneStatusPerInstance ==
    \A k \in 1..Len(invocations) :
        ReturnedParsed(invocations[k]) =>
            /\ Len(invocations[k].status.val) = Len(invocations[k].rows)
            /\ \A i \in 1..Len(invocations[k].status.val) :
                  /\ invocations[k].status.val[i].instance
                        = invocations[k].rows[i].instance
                  /\ invocations[k].status.val[i].profile
                        = invocations[k].rows[i].profile

(***************************************************************************)
(* The instance-availability check of a source file.                       *)
(***************************************************************************)
\* The profiles among profs that are not abstract and that no instance among
\* insts is an instance of.
Orphans(profs, insts) ==
    {profs[k].id : k \in {j \in 1..Len(profs) :
        /\ ~sdefs[Url(profs[j].id)].abstract
        /\ \A i \in 1..Len(insts) : insts[i].instanceof # profs[j].id}}

\* The 'No instances defined' statuses for the profile id in a report.
NoInstanceReports(report, id) ==
    {k \in 1..Len(report) : report[k] = NoInstanceStatus(id)}

\* The step that processes the next source file.
FileProcessed == i_file' = i_file + 1

\* C23: the step that processes a file with a non-abstract profile without
\* instance appends only 'No instances defined' Failure statuses to the
\* results and no instance to the instances to validate, whatever instances
\* the file declares; and every instance passed to an invocation is one of the
\* instances to validate.
C23_OrphanStopsFile ==
    /\ [][FileProcessed /\ Orphans(fsh_profiles', fsh_instances') # {} =>
            /\ fsh_instances_cleaned' = fsh_instances_cleaned
            /\ Len(results') >= Len(results)
            /\ SubSeq(results', 1, Len(results)) = results
            /\ \A k \in (Len(results) + 1)..Len(results') :
                  \E id \in Orphans(fsh_profiles', fsh_instances') :
                      results'[k] = NoInstanceStatus(id)]_vars
    /\ [](\A k \in 1..Len(invocations) :
              \A j \in 1..Len(invocations[k].rows) :
                  \E c \in 1..Len(fsh_instances_cleaned) :
                      /\ fsh_instances_cleaned[c].instance
                            = invocations[k].rows[j].instance
                      /\ fsh_instances_cleaned[c].filename
                            = invocations[k].rows[j].filename)

\* A file was processed that declares a profile without instance, an
\* instance to skip and an instance to validate, and nothing of it was kept.
C23_Witness ==
    /\ pc = "files"
    /\ i_file = 1
    /\ Orphans(fsh_profiles, fsh_instances) # {}
    /\ \E a, b \in 1..Len(fsh_instances) :
          /\ Excluded(instances[fsh_instances[a].instance],
                      exclude_code_systems, exclude_resource_types)
          /\ ~Excluded(instances[fsh_instances[b].instance],
                       exclude_code_systems, exclude_resource_types)
    /\ fsh_instances_cleaned = <<>>
    /\ Len(results) = Cardinality(Orphans(fsh_profiles, fsh_instances))

\* C24: the step that processes a file appends exactly one 'No instances
\* defined' Failure status for every non-abstract profile the file declares
\* without declaring an instance of it, whatever the files processed before
\* declared.
C24_AvailabilityPerFile ==
    [][FileProcessed =>
          \A id \in Orphans(fsh_profiles', fsh_instances') :
              Cardinality(NoInstanceReports(results', id))
                  = Cardinality(NoInstanceReports(results, id)) + 1]_vars

\* PatientProfile got its Failure status from the second file, although the
\* first file declares an instance of it.
C24_Witness ==
    /\ i_file = 2
    /\ PatientExample \in declared.instances
    /\ PatientProfile \in Range(fsh_profiles)
    /\ PatientExample \notin Range(fsh_instances)
    /\ Cardinality(NoInstanceReports(results, "PatientProfile")) = 1
    /\ results[Len(results)] = NoInstanceStatus("PatientProfile")

(***************************************************************************)
(* The workaround for duplicate OBI codings.                               *)
(***************************************************************************)
\* C21: after one application of deduplicate_obi_codes no identifier of the
\* file holds more than one v2-0203#OBI coding, and a second application
\* leaves the content of the file as the first left it.
C21_DeduplicateIdempotent ==
    d_exc = None =>
        /\ d_count >= 1 /\ "identifier" \in DOMAIN d_file.json =>
              \A k \in 1..Len(d_file.json.identifier) :
                  num_obi_codes(d_file.json.identifier[k]) <= 1
        /\ d_count = 2 => d_file = d_before

\* C22: once an invocation was made, every instance of the index has been
\* deduplicated, each before any invocation; and no step rewrites an instance
\* file after an invocation.
C22_RewriteBeforeInvocations ==
    /\ [](invocations # <<>> =>
            /\ \A id \in DOMAIN instances : id \in DOMAIN rewrites
            /\ \A id \in DOMAIN rewrites : rewrites[id] = 0)
    /\ [][invocations # <<>> \/ invocations' # <<>>
            => instance_files' = instance_files]_vars

\* An invocation was made, and the file of ObsExample is no longer as
\* generated.
C22_Witness ==
    /\ invocations # <<>>
    /\ DOMAIN rewrites = DOMAIN instances
    /\ instance_files["ObsExample"] # GeneratedFiles["ObsExample"]
    /\ num_obi_codes(instance_files["ObsExample"].json.identifier[1]) = 1

=========================================================================
